---------------------------- MODULE Spec2Model ----------------------------
(***************************************************************************)
(* Model of deepspeed/runtime/comm/coalesced_collectives.py:               *)
(*   reduce_scatter_coalesced  (lines 116-176)                             *)
(*   all_to_all_quant_reduce   (lines 31-111)                              *)
(*                                                                         *)
(* Three specifications share this module:                                 *)
(*   SpecRS     - W ranks run reduce_scatter_coalesced on same-shaped      *)
(*                lists; tensor contents are modelled element by element.  *)
(*   SpecSolver - one rank's pass over lines 54-81 (alignment, cache,      *)
(*                adaptive group-size loops, assertions), one loop         *)
(*                iteration per step.                                      *)
(*   SpecQuant  - W ranks run all_to_all_quant_reduce; tensors are         *)
(*                modelled by dimensionality and element count, and the    *)
(*                collectives as blocking rendezvous on their scope.       *)
(*                                                                         *)
(* Tensor values are integers.  Every input element is a multiple of the   *)
(* world size, so the true division of div_ is exact and is written \div.  *)
(***************************************************************************)
EXTENDS Integers, Sequences, FiniteSets, TLC

\* ------------------------------------------------------------------ bounds
MaxWorldSz ==
  3
MaxTensors ==
  2
MaxNumel ==
  4
MaxSolverWorld ==
  4
MaxSolverTensors ==
  2
MaxSmallNumel ==
  6
MaxCeilingMultiple ==
  2
MaxShortfall ==
  1
MaxExcess ==
  1
MaxGlobalWorldSize ==
  4
MaxQuantTensors ==
  2
MaxQuantNumel ==
  6

\* ----------------------------------------------------------------- helpers
Min(a, b) ==
  IF a <= b THEN a ELSE b

Max(a, b) ==
  IF a >= b THEN a ELSE b

\* math.ceil(n / w) for non-negative n and positive w
Ceil(n, w) ==
  (n + w - 1) \div w

\* python slice s[lo:hi] on a flat tensor (0-based, half-open, clamped)
Slice(s, lo, hi) ==
  SubSeq(s, Min(lo, Len(s)) + 1, Min(hi, Len(s)))

\* Tensor.narrow(0, start, length): no clamping, out of range is an error
Narrow(s, start, length) ==
  SubSeq(s, start + 1, start + length)

\* torch.chunk(s, chunks)[k]
Chunk(s, chunks, k) ==
  LET sz == Ceil(Len(s), chunks)
  IN  Slice(s, k * sz, k * sz + sz)

RECURSIVE torch_cat(_)
torch_cat(lst) ==
  IF lst = << >> THEN << >> ELSE Head(lst) \o torch_cat(Tail(lst))

RECURSIVE SumOver(_, _)
SumOver(f, S) ==
  IF S = {} THEN 0
  ELSE LET x == CHOOSE y \in S : TRUE
       IN  f[x] + SumOver(f, S \ {x})

SeqsUpTo(S, n) ==
  UNION {[1..k -> S] : k \in 1..n}

\* ------------------------------------------------------------------- state
VARIABLES
  world_sz,                      \* dist.get_world_size(group)
  tensors,                       \* [rank -> the caller's tensors, flattened]
  tensors0,                      \* the same at the time of the call
  tensor_partition_flat_buffer,  \* [rank -> flat buffer], << >> before it exists
  is_view,                       \* [rank -> flat buffer is tensors[0].view(-1)]
  num_allocated,                 \* [rank -> combined buffers allocated by torch.cat]
  rs_output_lst,                 \* [rank -> output_lst of reduce_scatter_coalesced]
  rs_pc                          \* [rank -> position in reduce_scatter_coalesced]

\* all_to_all_quant_reduce
VARIABLE
  global_world_size              \* dist.get_world_size(), line 36

\* one rank's pass over lines 44-81 of all_to_all_quant_reduce
VARIABLES
  numels,                        \* tensor.numel() of each (multi-dimensional) tensor
  idx,                           \* line 44, 1-based here
  aligned_size,                  \* line 56
  intra_quant_group,             \* lines 60, 62-73
  intra_group_cache,             \* line 42, a function aligned_size -> group
  from_cache,                    \* the group of this tensor came from line 60
  num_additions,                 \* times line 67 ran for this tensor
  num_doublings,                 \* times line 71 ran for this tensor
  solver_pc

\* W ranks running all_to_all_quant_reduce on same-shaped lists
VARIABLES
  local_world_size,              \* get_accelerator().device_count(), line 35
  shapes,                        \* per tensor: [dim |-> tensor.dim(), numel |-> tensor.numel()]
  num_nodes,                     \* [rank -> line 37], 0 before it is computed
  pc,                            \* [rank -> position in all_to_all_quant_reduce]
  pos,                           \* [rank -> idx of line 44, 1-based here]
  output_lst,                    \* [rank -> per tensor, "None" or the output's numel]
  calls,                         \* [rank -> the collective calls entered so far]
  group_cache,                   \* [rank -> intra_group_cache of line 42]
  num_quantized,                 \* [rank -> calls of swizzle_quant so far]
  error                          \* [rank -> "none" or the assertion that failed]

rs_vars ==
  <<world_sz, tensors, tensors0, tensor_partition_flat_buffer, is_view,
    num_allocated, rs_output_lst, rs_pc>>

solver_vars ==
  <<numels, idx, aligned_size, intra_quant_group,
    intra_group_cache, from_cache, num_additions, num_doublings, solver_pc>>

quant_vars ==
  <<local_world_size, shapes, num_nodes, pc, pos, output_lst, calls,
    group_cache, num_quantized, error>>

vars ==
  <<global_world_size, rs_vars, solver_vars, quant_vars>>

RsRanks ==
  0 .. world_sz - 1

\* --------------------------------------- reduce_scatter_coalesced: helpers
\* chunk_sz, line 130, and padded_partition_sz_for_each_tensor, line 135
chunk_sz(numel, W) ==
  Ceil(numel, W)

\* partition_lst_for_each_tensor[tensor_idx][rank], lines 131-133
partition(tensor, W, rank) ==
  LET c == chunk_sz(Len(tensor), W)
  IN  Slice(tensor, rank * c, rank * c + c)

\* the fast-path test of line 137
fast_path(ts, W) ==
  Len(ts) = 1 /\ Len(ts[1]) % W = 0

\* lines 144-155: for rank, for tensor_idx: the chunk, then padding_sz filler
\* elements; filler is what torch.empty happens to hold
tensor_partitions_lst_with_padding(ts, W, filler) ==
  [n \in 1 .. W * Len(ts) |->
     LET rank == (n - 1) \div Len(ts)
         tensor_idx == ((n - 1) % Len(ts)) + 1
         tensor_chunk == partition(ts[tensor_idx], W, rank)
         padding_sz == chunk_sz(Len(ts[tensor_idx]), W) - Len(tensor_chunk)
     IN  tensor_chunk \o [k \in 1 .. padding_sz |-> filler]]

\* line 159, tensor_partition_flat_buffer.div_(world_sz)
div_identity(buf, W) ==
  buf

div_(buf, W) ==
  [k \in 1 .. Len(buf) |-> buf[k] \div W]

\* dist.reduce_scatter_fn (line 23): elementwise sum over the ranks of shard
\* `rank` of each rank's input
reduce_scatter_fn(bufs, W, rank) ==
  LET shard(q) == Chunk(bufs[q], W, rank)
  IN  [k \in 1 .. Len(shard(rank)) |->
         SumOver([q \in 0 .. W - 1 |-> shard(q)[k]], 0 .. W - 1)]

\* writing `shard` into tensor_partition_buffer_for_each_rank[rank], which is
\* a view of the flat buffer (lines 160, 164)
write_chunk(buf, W, rank, shard) ==
  LET sz == Ceil(Len(buf), W)
  IN  [k \in 1 .. Len(buf) |->
         IF k > rank * sz /\ k <= rank * sz + sz THEN shard[k - rank * sz]
         ELSE buf[k]]

\* offset at tensor_idx (1-based) of the loop of lines 170-175
RECURSIVE offset_at(_, _, _)
offset_at(ts, W, tensor_idx) ==
  IF tensor_idx = 1 THEN 0
  ELSE offset_at(ts, W, tensor_idx - 1) + chunk_sz(Len(ts[tensor_idx - 1]), W)

\* lines 169-176 with the narrow length taken from the padded size
de_interleave_padded(ts, buf, W, rank) ==
  [tensor_idx \in 1 .. Len(ts) |->
     Narrow(Chunk(buf, W, rank), offset_at(ts, W, tensor_idx),
            chunk_sz(Len(ts[tensor_idx]), W))]

\* lines 169-176
de_interleave(ts, buf, W, rank) ==
  [tensor_idx \in 1 .. Len(ts) |->
     Narrow(Chunk(buf, W, rank), offset_at(ts, W, tensor_idx),
            Len(partition(ts[tensor_idx], W, rank)))]

\* -------------------------------------------- reduce_scatter_coalesced: run
FillerValues ==
  {0, 7}

\* 0: every rank holds the same data; 1: the data depends on the rank
Seeds ==
  {0, 1}

\* element j of tensor i on rank r: a multiple of W that depends on the
\* position and, with seed 1, on the rank
InputValue(W, seed, r, i, j) ==
  W * (seed * (r + 1) + MaxNumel * (i - 1) + j)

\* the variables of reduce_scatter_coalesced while no rank runs it
RsIdle ==
  /\ world_sz = 0
  /\ tensors = << >>
  /\ tensors0 = << >>
  /\ tensor_partition_flat_buffer = << >>
  /\ is_view = << >>
  /\ num_allocated = << >>
  /\ rs_output_lst = << >>
  /\ rs_pc = << >>

\* the variables of the group-size solver while it is not run
SolverIdle ==
  /\ numels = << >>
  /\ idx = 0
  /\ aligned_size = 0
  /\ intra_quant_group = 0
  /\ intra_group_cache = << >>
  /\ from_cache = FALSE
  /\ num_additions = 0
  /\ num_doublings = 0
  /\ solver_pc = "idle"

\* the variables of all_to_all_quant_reduce while no rank runs it
QuantIdle ==
  /\ local_world_size = 0
  /\ shapes = << >>
  /\ num_nodes = << >>
  /\ pc = << >>
  /\ pos = << >>
  /\ output_lst = << >>
  /\ calls = << >>
  /\ group_cache = << >>
  /\ num_quantized = << >>
  /\ error = << >>

RsInit ==
  /\ SolverIdle
  /\ QuantIdle
  /\ global_world_size = 0
  /\ world_sz \in 1 .. MaxWorldSz
  /\ \E sizes \in SeqsUpTo(1 .. MaxNumel, MaxTensors), seed \in Seeds :
       tensors0 = [r \in 0 .. world_sz - 1 |->
                     [i \in 1 .. Len(sizes) |->
                        [j \in 1 .. sizes[i] |-> InputValue(world_sz, seed, r, i, j)]]]
  /\ tensors = tensors0
  /\ tensor_partition_flat_buffer = [r \in 0 .. world_sz - 1 |-> << >>]
  /\ is_view = [r \in 0 .. world_sz - 1 |-> FALSE]
  /\ num_allocated = [r \in 0 .. world_sz - 1 |-> 0]
  /\ rs_output_lst = [r \in 0 .. world_sz - 1 |-> << >>]
  /\ rs_pc = [r \in 0 .. world_sz - 1 |-> "start"]

\* lines 127-140, 159: partitioning, then the single-tensor, no-padding fast
\* path: the flat buffer is a view of the caller's tensor, and the pre-divide
\* is applied to it
BuildFast(r) ==
  /\ r \in RsRanks
  /\ rs_pc[r] = "start"
  /\ fast_path(tensors[r], world_sz)
  /\ tensor_partition_flat_buffer' =
       [tensor_partition_flat_buffer EXCEPT ![r] = div_(tensors[r][1], world_sz)]
  /\ tensors' = [tensors EXCEPT ![r] = <<div_(tensors[r][1], world_sz)>>]
  /\ is_view' = [is_view EXCEPT ![r] = TRUE]
  /\ rs_pc' = [rs_pc EXCEPT ![r] = "in_reduce_scatter"]
  /\ UNCHANGED <<global_world_size, solver_vars, quant_vars, world_sz,
                 tensors0, num_allocated, rs_output_lst>>

\* lines 127-135, 141-159: partitioning, interleaving with padding, torch.cat
\* into a new buffer, and the pre-divide of that buffer
BuildInterleaved(r) ==
  /\ r \in RsRanks
  /\ rs_pc[r] = "start"
  /\ ~fast_path(tensors[r], world_sz)
  /\ \E filler \in FillerValues :
       tensor_partition_flat_buffer' =
         [tensor_partition_flat_buffer EXCEPT ![r] =
            div_(torch_cat(tensor_partitions_lst_with_padding(tensors[r], world_sz,
                                                              filler)),
                 world_sz)]
  /\ num_allocated' = [num_allocated EXCEPT ![r] = @ + 1]
  /\ rs_pc' = [rs_pc EXCEPT ![r] = "in_reduce_scatter"]
  /\ UNCHANGED <<global_world_size, solver_vars, quant_vars, world_sz, tensors,
                 tensors0, is_view, rs_output_lst>>

\* lines 160-176: the collective returns on rank r once every rank has
\* entered it; the result lands in this rank's chunk of the flat buffer (and
\* so, on the fast path, in the caller's tensor), from which the outputs are
\* sliced
ReduceScatter(r) ==
  /\ r \in RsRanks
  /\ rs_pc[r] = "in_reduce_scatter"
  /\ \A q \in RsRanks : rs_pc[q] \in {"in_reduce_scatter", "done"}
  /\ LET reduced == write_chunk(tensor_partition_flat_buffer[r], world_sz, r,
                                reduce_scatter_fn(tensor_partition_flat_buffer,
                                                  world_sz, r))
     IN  /\ tensor_partition_flat_buffer' =
              [tensor_partition_flat_buffer EXCEPT ![r] = reduced]
         /\ tensors' = IF is_view[r] THEN [tensors EXCEPT ![r] = <<reduced>>]
                       ELSE tensors
         /\ rs_output_lst' =
              [rs_output_lst EXCEPT ![r] =
                 de_interleave(tensors[r], reduced, world_sz, r)]
  /\ rs_pc' = [rs_pc EXCEPT ![r] = "done"]
  /\ UNCHANGED <<global_world_size, solver_vars, quant_vars, world_sz,
                 tensors0, is_view, num_allocated>>

RsNext ==
  \E r \in 0 .. MaxWorldSz - 1 :
    \/ BuildFast(r)
    \/ BuildInterleaved(r)
    \/ ReduceScatter(r)

SpecRS ==
  RsInit /\ [][RsNext]_vars


\* ------------------------------------------- reduce_scatter_coalesced: properties
\* max(0, min(c, numel - r*c)) with c = ceil(numel / W)
partition_length(numel, W, r) ==
  Max(0, Min(Ceil(numel, W), numel - r * Ceil(numel, W)))

\* the average over the ranks of flat element e (0-based) of input i
AverageOfInputs(i, e) ==
  SumOver([q \in RsRanks |-> tensors0[q][i][e + 1]], RsRanks) \div world_sz

\* C1: once rank r has returned, element k of output i is the average over
\* all ranks of element k of the r-th partition of input i, whatever the
\* padding held, on the fast path and on the interleaved path.
C1_OutputIsAverage ==
  \A r \in RsRanks :
    rs_pc[r] = "done" =>
      \A i \in 1 .. Len(tensors0[r]) :
        \A k \in 1 .. partition_length(Len(tensors0[r][i]), world_sz, r) :
          /\ k <= Len(rs_output_lst[r][i])
          /\ rs_output_lst[r][i][k] =
               AverageOfInputs(i, r * Ceil(Len(tensors0[r][i]), world_sz) + k - 1)

\* a rank other than 0 has returned from the interleaved path with padding in
\* the buffer, rank-dependent inputs and a non-empty second output
C1_Witness ==
  \E r \in RsRanks :
    /\ r > 0
    /\ rs_pc[r] = "done"
    /\ ~is_view[r]
    /\ Len(tensors0[r]) = 2
    /\ Len(tensors0[r][1]) % world_sz # 0
    /\ rs_output_lst[r][2] # << >>
    /\ tensors0[r] # tensors0[0]

\* C2: once rank r has returned, output i has exactly
\* partition_length(buffer_i, r) elements, never the padded length.
C2_OutputLength ==
  \A r \in RsRanks :
    rs_pc[r] = "done" =>
      /\ Len(rs_output_lst[r]) = Len(tensors0[r])
      /\ \A i \in 1 .. Len(tensors0[r]) :
           Len(rs_output_lst[r][i]) =
             partition_length(Len(tensors0[r][i]), world_sz, r)

\* a returned rank holds an empty partition of the first buffer (all of its
\* slot in the interleaved buffer is padding) followed by a short tail
\* partition of the second
C2_Witness ==
  \E r \in RsRanks :
    /\ rs_pc[r] = "done"
    /\ Len(tensors0[r]) = 2
    /\ rs_output_lst[r][1] = << >>
    /\ Len(rs_output_lst[r][2]) > 0
    /\ Len(rs_output_lst[r][2]) < Ceil(Len(tensors0[r][2]), world_sz)

\* C5: the call allocates at most one combined buffer and leaves the caller's
\* input buffers as they were.
C5_InputsUnchanged ==
  \A r \in RsRanks :
    /\ num_allocated[r] <= 1
    /\ rs_pc[r] = "done" => tensors[r] = tensors0[r]


\* ------------------------------------------------ adaptive group-size solver
\* line 43
max_elems_per_intra_group ==
  40960

\* lines 54-56
padding_size(numel, W) ==
  IF numel % W # 0 THEN W - (numel % W) ELSE 0

\* the break test of lines 64-65 without its ceiling conjunct
first_loop_break_no_ceiling(a, g) ==
  a % g = 0

\* the break test of lines 64-65 with a strict ceiling
first_loop_break_strict(a, g) ==
  a % g = 0 /\ Ceil(a, g) < max_elems_per_intra_group

\* the break test of lines 64-65; a / g is a true division, and against the
\* integer ceiling a / g <= ceiling exactly when ceil(a / g) <= ceiling
first_loop_break(a, g) ==
  a % g = 0 /\ Ceil(a, g) <= max_elems_per_intra_group

\* the test of lines 69-70
second_loop_double(a, g) ==
  a % (g * 2) = 0 /\ Ceil(a, g) > max_elems_per_intra_group

\* the assertions of lines 74-80 with numel >= group in the last one
asserts_hold_weak(W, numel, a, g) ==
  /\ g % W = 0
  /\ Ceil(a, g) <= max_elems_per_intra_group
  /\ numel >= g

\* the assertions of lines 74-80
asserts_hold(W, numel, a, g) ==
  /\ g % W = 0
  /\ Ceil(a, g) <= max_elems_per_intra_group
  /\ numel > g

\* element counts whose group is found within a few iterations: the small
\* ones, and those padded up to an exact multiple of ceiling * W
CheapNumels(W) ==
  (1 .. MaxSmallNumel) \cup
  {W * max_elems_per_intra_group * k - j :
     k \in 1 .. MaxCeilingMultiple, j \in 0 .. Min(MaxShortfall, W - 1)}

\* element counts just above a multiple of the ceiling, W * (ceiling * k + e)
HardNumels(W) ==
  {W * (max_elems_per_intra_group * k + e) :
     k \in 1 .. MaxCeilingMultiple, e \in 1 .. MaxExcess}

SolverInit ==
  /\ RsIdle
  /\ QuantIdle
  /\ global_world_size \in 1 .. MaxSolverWorld
  /\ numels \in SeqsUpTo(CheapNumels(global_world_size), MaxSolverTensors) \cup
                {<<n>> : n \in HardNumels(global_world_size)}
  /\ idx = 1
  /\ aligned_size = 0
  /\ intra_quant_group = 0
  /\ intra_group_cache = << >>
  /\ from_cache = FALSE
  /\ num_additions = 0
  /\ num_doublings = 0
  /\ solver_pc = "align"

\* lines 54-60: alignment, then the cached group
AlignCached ==
  /\ solver_pc = "align"
  /\ LET a == numels[idx] + padding_size(numels[idx], global_world_size)
     IN  /\ a \in DOMAIN intra_group_cache
         /\ aligned_size' = a
         /\ intra_quant_group' = intra_group_cache[a]
  /\ from_cache' = TRUE
  /\ num_additions' = 0
  /\ num_doublings' = 0
  /\ solver_pc' = "solved"
  /\ UNCHANGED <<global_world_size, rs_vars, quant_vars, numels, idx,
                 intra_group_cache>>

\* lines 54-59, 61-62: alignment, then the first candidate
AlignSolve ==
  /\ solver_pc = "align"
  /\ LET a == numels[idx] + padding_size(numels[idx], global_world_size)
     IN  /\ a \notin DOMAIN intra_group_cache
         /\ aligned_size' = a
  /\ intra_quant_group' = global_world_size
  /\ from_cache' = FALSE
  /\ num_additions' = 0
  /\ num_doublings' = 0
  /\ solver_pc' = "first_loop"
  /\ UNCHANGED <<global_world_size, rs_vars, quant_vars, numels, idx,
                 intra_group_cache>>

\* lines 63-67, one evaluation of the loop: line 67, or leaving the loop by
\* its condition or by the break
FirstLoop ==
  /\ solver_pc = "first_loop"
  /\ IF /\ intra_quant_group < aligned_size
        /\ ~first_loop_break(aligned_size, intra_quant_group)
     THEN /\ intra_quant_group' = intra_quant_group + global_world_size
          /\ num_additions' = num_additions + 1
          /\ solver_pc' = "first_loop"
     ELSE /\ solver_pc' = "second_loop"
          /\ UNCHANGED <<intra_quant_group, num_additions>>
  /\ UNCHANGED <<global_world_size, rs_vars, quant_vars, numels, idx,
                 aligned_size, intra_group_cache, from_cache, num_doublings>>

\* lines 68-73, one evaluation of the loop: line 71, or the break
SecondLoop ==
  /\ solver_pc = "second_loop"
  /\ IF second_loop_double(aligned_size, intra_quant_group)
     THEN /\ intra_quant_group' = intra_quant_group * 2
          /\ num_doublings' = num_doublings + 1
          /\ solver_pc' = "second_loop"
     ELSE /\ solver_pc' = "asserts"
          /\ UNCHANGED <<intra_quant_group, num_doublings>>
  /\ UNCHANGED <<global_world_size, rs_vars, quant_vars, numels, idx,
                 aligned_size, intra_group_cache, from_cache, num_additions>>

\* lines 74-81, all assertions hold and the group is cached
AssertsPass ==
  /\ solver_pc = "asserts"
  /\ asserts_hold(global_world_size, numels[idx], aligned_size, intra_quant_group)
  /\ intra_group_cache' = (aligned_size :> intra_quant_group) @@ intra_group_cache
  /\ solver_pc' = "solved"
  /\ UNCHANGED <<global_world_size, rs_vars, quant_vars, numels, idx,
                 aligned_size, intra_quant_group, from_cache, num_additions,
                 num_doublings>>

\* lines 74-80, an assertion fails: AssertionError leaves the function
AssertsFail ==
  /\ solver_pc = "asserts"
  /\ ~asserts_hold(global_world_size, numels[idx], aligned_size, intra_quant_group)
  /\ solver_pc' = "failed"
  /\ UNCHANGED <<global_world_size, rs_vars, quant_vars, numels, idx,
                 aligned_size, intra_quant_group, intra_group_cache, from_cache,
                 num_additions, num_doublings>>

\* lines 82-110 use the group and leave the solver's variables alone; then
\* line 44 takes the next tensor, or line 111 returns
NextTensor ==
  /\ solver_pc = "solved"
  /\ idx' = idx + 1
  /\ solver_pc' = IF idx < Len(numels) THEN "align" ELSE "returned"
  /\ UNCHANGED <<global_world_size, rs_vars, quant_vars, numels, aligned_size,
                 intra_quant_group, intra_group_cache, from_cache,
                 num_additions, num_doublings>>

SolverNext ==
  \/ AlignCached
  \/ AlignSolve
  \/ FirstLoop
  \/ SecondLoop
  \/ AssertsPass
  \/ AssertsFail
  \/ NextTensor

SpecSolver ==
  SolverInit /\ [][SolverNext]_vars

\* ---------------------------------------------------------- solver: properties
\* C7: when both loops have ended, intra_quant_group is the smallest multiple
\* g of the world size with aligned_size % g = 0 and aligned_size / g <= 40960.
C7_SmallestGroup ==
  solver_pc = "asserts" =>
    /\ intra_quant_group % global_world_size = 0
    /\ aligned_size % intra_quant_group = 0
    /\ aligned_size \div intra_quant_group <= max_elems_per_intra_group
    /\ \A k \in 1 .. (intra_quant_group \div global_world_size) - 1 :
         ~ /\ aligned_size % (k * global_world_size) = 0
           /\ aligned_size \div (k * global_world_size) <= max_elems_per_intra_group

\* both loops have ended for a size whose first candidates were rejected
C7_Witness ==
  /\ solver_pc = "asserts"
  /\ num_additions >= 2
  /\ intra_quant_group < aligned_size

\* C8 as stated: a group that passed the solve (and is cached and used) divides
\* aligned_size, is a multiple of the world size, gives at most 40960 elements
\* per group, and gives fewer elements per group than the tensor has.
C8_FourInvariantsAsStated ==
  solver_pc = "solved" =>
    /\ aligned_size % intra_quant_group = 0
    /\ intra_quant_group % global_world_size = 0
    /\ aligned_size \div intra_quant_group <= max_elems_per_intra_group
    /\ aligned_size \div intra_quant_group < numels[idx]

\* C8 as amended: a group that passed the solve (and is cached and used)
\* divides aligned_size, is a multiple of the world size, gives at most 40960
\* elements per group, and is smaller than the tensor's element count.
C8_FourInvariants ==
  solver_pc = "solved" =>
    /\ aligned_size % intra_quant_group = 0
    /\ intra_quant_group % global_world_size = 0
    /\ aligned_size \div intra_quant_group <= max_elems_per_intra_group
    /\ intra_quant_group < numels[idx]

\* a group taken from the cache for a tensor whose element count differs from
\* the one the assertions saw
C8_Witness ==
  /\ solver_pc = "solved"
  /\ from_cache
  /\ idx > 1
  /\ numels[idx] # numels[idx - 1]

\* C9 as stated: when aligned_size / world_size exceeds the ceiling, the
\* doubling loop has doubled the group at least once when the solver ends.
C9_DoublingEngages ==
  (solver_pc = "asserts" /\
   aligned_size \div global_world_size > max_elems_per_intra_group)
    => num_doublings >= 1

\* C9 as amended: when aligned_size / world_size exceeds the ceiling, the
\* first loop has raised the group at least once when the solver ends, and
\* the doubling loop has not doubled it.
C9_FirstLoopEngages ==
  (solver_pc = "asserts" /\
   aligned_size \div global_world_size > max_elems_per_intra_group)
    => (num_additions >= 1 /\ num_doublings = 0)

\* the solver has ended for a size whose first candidate exceeds the ceiling
C9_Witness ==
  /\ solver_pc = "asserts"
  /\ aligned_size \div global_world_size > max_elems_per_intra_group
  /\ intra_quant_group > global_world_size


\* ------------------------------------------------- all_to_all_quant_reduce
Ranks ==
  0 .. global_world_size - 1

\* line 39, int(this_rank / local_world_size)
intra_idx(this_rank) ==
  this_rank \div local_world_size

\* line 40
inter_idx(this_rank) ==
  this_rank % local_world_size

\* groups[f'local_{intra_idx}'], lines 88-89
local_scope(this_rank) ==
  <<"local", intra_idx(this_rank)>>

\* groups[f'global_{inter_idx}'], lines 95-96
global_scope(this_rank) ==
  <<"global", inter_idx(this_rank)>>

\* group=None of line 46 / 118: the default group, every rank
world_scope ==
  <<"world", 0>>

\* the ranks of a scope: one local scope per node, one global scope per
\* device slot
members(scope) ==
  IF scope[1] = "local" THEN {q \in Ranks : intra_idx(q) = scope[2]}
  ELSE IF scope[1] = "global" THEN {q \in Ranks : inter_idx(q) = scope[2]}
  ELSE Ranks

\* lines 63-67 run to the end
RECURSIVE first_loop(_, _, _)
first_loop(a, g, W) ==
  IF g < a /\ ~first_loop_break(a, g) THEN first_loop(a, g + W, W) ELSE g

\* lines 68-73 run to the end
RECURSIVE second_loop(_, _)
second_loop(a, g) ==
  IF second_loop_double(a, g) THEN second_loop(a, g * 2) ELSE g

\* lines 59-73: the cached group, or the one the two loops find
group_for(cache, a, W) ==
  IF a \in DOMAIN cache THEN cache[a] ELSE second_loop(a, first_loop(a, W, W))

\* lines 59, 74-80: the assertions are evaluated on a cache miss only
group_accepted(cache, numel, a, W) ==
  a \in DOMAIN cache \/ asserts_hold(W, numel, a, group_for(cache, a, W))

\* an output slot: line 41's placeholder, or a tensor of a given numel
None ==
  [filled |-> FALSE, numel |-> 0]

Filled(n) ==
  [filled |-> TRUE, numel |-> n]

\* line 99
partition_size(numel, W) ==
  (numel + padding_size(numel, W)) \div W

\* numel of the averaged tensor of lines 103 and 108,
\* (sum(final_output.chunk(num_nodes)) / num_nodes).view(-1)
averaged_numel(numel, W) ==
  partition_size(numel, W)

\* lines 99-109: what output_lst[idx] is after the finalize step
finalize_output(numel, W, this_rank) ==
  LET start == partition_size(numel, W) * this_rank
      end == start + partition_size(numel, W)
  IN  IF start < numel /\ end <= numel
        THEN Filled(averaged_numel(numel, W))
      ELSE IF start < numel
        THEN Filled(numel - start)
      ELSE None

\* lines 104 and 110: the assertion of the branch taken holds
finalize_asserts_hold(numel, W, this_rank) ==
  LET start == partition_size(numel, W) * this_rank
      end == start + partition_size(numel, W)
  IN  IF start < numel /\ end <= numel
        THEN averaged_numel(numel, W) = partition_size(numel, W)
      ELSE IF start < numel
        THEN this_rank = W - 1
      ELSE TRUE

\* line 46: numel of reduce_scatter_coalesced([tensor])[0], lines 131-133, 172-173
reduce_scatter_numel(numel, W, this_rank) ==
  Len(partition([k \in 1 .. numel |-> 0], W, this_rank))

\* calls entered on a scope
calls_on(cs, scope) ==
  Cardinality({k \in 1 .. Len(cs) : cs[k].scope = scope})

\* the collective rank r is in returns once every rank of its scope has
\* entered it
collective_returns(r) ==
  LET c == calls[r][Len(calls[r])]
  IN  \A q \in members(c.scope) :
        calls_on(calls[q], c.scope) >= calls_on(calls[r], c.scope)

Enter(r, op, scope) ==
  calls' = [calls EXCEPT ![r] = Append(@, [op |-> op, scope |-> scope, idx |-> pos[r]])]

Shapes ==
  [dim : {1, 2}, numel : 1 .. MaxQuantNumel]

QuantInit ==
  /\ RsIdle
  /\ SolverIdle
  /\ global_world_size \in 1 .. MaxGlobalWorldSize
  /\ local_world_size \in 1 .. global_world_size
  /\ shapes \in SeqsUpTo(Shapes, MaxQuantTensors)
  /\ num_nodes = [r \in Ranks |-> 0]
  /\ pc = [r \in Ranks |-> "start"]
  /\ pos = [r \in Ranks |-> 1]
  /\ output_lst = [r \in Ranks |-> << >>]
  /\ calls = [r \in Ranks |-> << >>]
  /\ group_cache = [r \in Ranks |-> << >>]
  /\ num_quantized = [r \in Ranks |-> 0]
  /\ error = [r \in Ranks |-> "none"]

\* lines 32-43
Start(r) ==
  /\ r \in Ranks
  /\ pc[r] = "start"
  /\ num_nodes' = [num_nodes EXCEPT ![r] = global_world_size \div local_world_size]
  /\ output_lst' = [output_lst EXCEPT ![r] = [i \in 1 .. Len(shapes) |-> None]]
  /\ pc' = [pc EXCEPT ![r] = "loop"]
  /\ UNCHANGED <<global_world_size, rs_vars, solver_vars, local_world_size,
                 shapes, pos, calls, group_cache, num_quantized, error>>

\* lines 44-46 and, in reduce_scatter_coalesced, 124-165: a 1-D tensor goes
\* into the reduce-scatter on the default group
ReduceScatter1D(r) ==
  /\ r \in Ranks
  /\ pc[r] = "loop"
  /\ pos[r] <= Len(shapes)
  /\ shapes[pos[r]].dim = 1
  /\ Enter(r, "reduce_scatter", world_scope)
  /\ pc' = [pc EXCEPT ![r] = "reduce_scatter"]
  /\ UNCHANGED <<global_world_size, rs_vars, solver_vars, local_world_size,
                 shapes, num_nodes, pos, output_lst, group_cache,
                 num_quantized, error>>

\* lines 163-176, 46-47: the reduce-scatter returns, the output is sliced out
ReduceScatter1DReturns(r) ==
  /\ r \in Ranks
  /\ pc[r] = "reduce_scatter"
  /\ collective_returns(r)
  /\ output_lst' = [output_lst EXCEPT ![r][pos[r]] =
                      Filled(reduce_scatter_numel(shapes[pos[r]].numel,
                                                  global_world_size, r))]
  /\ pos' = [pos EXCEPT ![r] = @ + 1]
  /\ pc' = [pc EXCEPT ![r] = "loop"]
  /\ UNCHANGED <<global_world_size, rs_vars, solver_vars, local_world_size,
                 shapes, num_nodes, calls, group_cache, num_quantized, error>>

\* lines 44-45, 54-80: the group-size assertions fail for a multi-dimensional
\* tensor
GroupSizeFails(r) ==
  /\ r \in Ranks
  /\ pc[r] = "loop"
  /\ pos[r] <= Len(shapes)
  /\ shapes[pos[r]].dim # 1
  /\ LET numel == shapes[pos[r]].numel
         a == numel + padding_size(numel, global_world_size)
     IN  ~group_accepted(group_cache[r], numel, a, global_world_size)
  /\ pc' = [pc EXCEPT ![r] = "failed"]
  /\ error' = [error EXCEPT ![r] = "group_size"]
  /\ UNCHANGED <<global_world_size, rs_vars, solver_vars, local_world_size,
                 shapes, num_nodes, pos, output_lst, calls, group_cache,
                 num_quantized>>

\* lines 44-45, 54-88: the group is found or taken from the cache, the tensor
\* is quantized and the all-to-all of the payload on the local scope entered
SwizzleQuant(r) ==
  /\ r \in Ranks
  /\ pc[r] = "loop"
  /\ pos[r] <= Len(shapes)
  /\ shapes[pos[r]].dim # 1
  /\ LET numel == shapes[pos[r]].numel
         a == numel + padding_size(numel, global_world_size)
     IN  /\ group_accepted(group_cache[r], numel, a, global_world_size)
         /\ group_cache' = [group_cache EXCEPT ![r] =
              (a :> group_for(group_cache[r], a, global_world_size)) @@ @]
  /\ num_quantized' = [num_quantized EXCEPT ![r] = @ + 1]
  /\ Enter(r, "all_to_all_local_payload", local_scope(r))
  /\ pc' = [pc EXCEPT ![r] = "local_payload"]
  /\ UNCHANGED <<global_world_size, rs_vars, solver_vars, local_world_size,
                 shapes, num_nodes, pos, output_lst, error>>

\* lines 88-89: the payload exchange returns, the scale exchange is entered
LocalPayloadReturns(r) ==
  /\ r \in Ranks
  /\ pc[r] = "local_payload"
  /\ collective_returns(r)
  /\ Enter(r, "all_to_all_local_scales", local_scope(r))
  /\ pc' = [pc EXCEPT ![r] = "local_scales"]
  /\ UNCHANGED <<global_world_size, rs_vars, solver_vars, local_world_size,
                 shapes, num_nodes, pos, output_lst, group_cache,
                 num_quantized, error>>

\* lines 89-95: quantized_reduction, then the payload exchange on the global
\* scope is entered
QuantizedReduction(r) ==
  /\ r \in Ranks
  /\ pc[r] = "local_scales"
  /\ collective_returns(r)
  /\ Enter(r, "all_to_all_global_payload", global_scope(r))
  /\ pc' = [pc EXCEPT ![r] = "global_payload"]
  /\ UNCHANGED <<global_world_size, rs_vars, solver_vars, local_world_size,
                 shapes, num_nodes, pos, output_lst, group_cache,
                 num_quantized, error>>

\* lines 95-96
GlobalPayloadReturns(r) ==
  /\ r \in Ranks
  /\ pc[r] = "global_payload"
  /\ collective_returns(r)
  /\ Enter(r, "all_to_all_global_scales", global_scope(r))
  /\ pc' = [pc EXCEPT ![r] = "global_scales"]
  /\ UNCHANGED <<global_world_size, rs_vars, solver_vars, local_world_size,
                 shapes, num_nodes, pos, output_lst, group_cache,
                 num_quantized, error>>

\* lines 96-110: dequantize and finalize, the assertion of the branch holds
Finalize(r) ==
  /\ r \in Ranks
  /\ pc[r] = "global_scales"
  /\ collective_returns(r)
  /\ finalize_asserts_hold(shapes[pos[r]].numel, global_world_size, r)
  /\ output_lst' = [output_lst EXCEPT ![r][pos[r]] =
                      finalize_output(shapes[pos[r]].numel, global_world_size, r)]
  /\ pos' = [pos EXCEPT ![r] = @ + 1]
  /\ pc' = [pc EXCEPT ![r] = "loop"]
  /\ UNCHANGED <<global_world_size, rs_vars, solver_vars, local_world_size,
                 shapes, num_nodes, calls, group_cache, num_quantized, error>>

\* lines 96-110: dequantize and finalize, the assertion of line 110 (or 104)
\* fails after the slot was assigned
FinalizeAssertFails(r) ==
  /\ r \in Ranks
  /\ pc[r] = "global_scales"
  /\ collective_returns(r)
  /\ ~finalize_asserts_hold(shapes[pos[r]].numel, global_world_size, r)
  /\ output_lst' = [output_lst EXCEPT ![r][pos[r]] =
                      finalize_output(shapes[pos[r]].numel, global_world_size, r)]
  /\ pc' = [pc EXCEPT ![r] = "failed"]
  /\ error' = [error EXCEPT ![r] = "last_rank"]
  /\ UNCHANGED <<global_world_size, rs_vars, solver_vars, local_world_size,
                 shapes, num_nodes, pos, calls, group_cache, num_quantized>>

\* lines 44, 111
Return(r) ==
  /\ r \in Ranks
  /\ pc[r] = "loop"
  /\ pos[r] > Len(shapes)
  /\ pc' = [pc EXCEPT ![r] = "returned"]
  /\ UNCHANGED <<global_world_size, rs_vars, solver_vars, local_world_size,
                 shapes, num_nodes, pos, output_lst, calls, group_cache,
                 num_quantized, error>>

QuantNext ==
  \E r \in 0 .. MaxGlobalWorldSize - 1 :
    \/ Start(r)
    \/ ReduceScatter1D(r)
    \/ ReduceScatter1DReturns(r)
    \/ GroupSizeFails(r)
    \/ SwizzleQuant(r)
    \/ LocalPayloadReturns(r)
    \/ QuantizedReduction(r)
    \/ GlobalPayloadReturns(r)
    \/ Finalize(r)
    \/ FinalizeAssertFails(r)
    \/ Return(r)

SpecQuant ==
  QuantInit /\ [][QuantNext]_vars

\* ------------------------------------------ all_to_all_quant_reduce: properties
\* world_size is a multiple of local_world_size
ConsistentTopology ==
  global_world_size % local_world_size = 0

\* C3: on a consistent topology, when a rank returns, the slot of every
\* multi-dimensional buffer is filled and holds as many elements as the plain
\* reduce-scatter gives that rank for a buffer of the same length.
C3_FilledWithPlainCount ==
  \A r \in Ranks :
    (ConsistentTopology /\ pc[r] = "returned") =>
      \A i \in 1 .. Len(shapes) :
        shapes[i].dim # 1 =>
          /\ output_lst[r][i].filled
          /\ output_lst[r][i].numel =
               partition_length(shapes[i].numel, global_world_size, r)

\* C4: on a consistent topology, a rank whose window was truncated to
\* numel - r * p elements is the last rank, so the assertion of line 110
\* never fails.
C4_OnlyLastRankShort ==
  \A r \in Ranks :
    ConsistentTopology =>
    /\ error[r] # "last_rank"
    /\ \A i \in 1 .. Len(output_lst[r]) :
         (/\ shapes[i].dim # 1
          /\ output_lst[r][i].filled
          /\ output_lst[r][i].numel < partition_size(shapes[i].numel,
                                                     global_world_size))
           => r = global_world_size - 1

\* C6: with a world size that is not a multiple of local_world_size, no rank
\* quantizes anything or enters a collective.
C6_FailsBeforeAnyCall ==
  global_world_size % local_world_size # 0 =>
    \A r \in Ranks : calls[r] = << >> /\ num_quantized[r] = 0

\* C10: on a consistent topology, the ranks that have returned entered the
\* same sequence of collective calls, and no rank has stopped with a fatal
\* error while another rank has gone on to enter a collective the stopped
\* rank never entered.
C10_SameCollectiveSequence ==
  \A r, q \in Ranks :
    ConsistentTopology =>
    /\ (pc[r] = "returned" /\ pc[q] = "returned") =>
         [k \in DOMAIN calls[r] |-> <<calls[r][k].op, calls[r][k].idx>>] =
         [k \in DOMAIN calls[q] |-> <<calls[q][k].op, calls[q][k].idx>>]
    /\ pc[r] = "failed" => Len(calls[q]) <= Len(calls[r])

=============================================================================
